---- MODULE Spec2Model ----
(***************************************************************************)
(* Model of manual_prune/finetune.py (metaspiration/PyTorch_Pruning):      *)
(* the FilterPrunner (ranker and planner) and the PrunningFineTuner        *)
(* (orchestrator).                                                         *)
(*                                                                         *)
(* Two specifications share the variables:                                 *)
(*   Spec      the PrunningFineTuner as a state machine: prune() and       *)
(*             get_candidates_to_prune() started on a constructed tuner,   *)
(*             with every call they make (test, train, train_epoch,        *)
(*             train_batch, FilterPrunner.forward) stepped through.        *)
(*   SpecPlan  the pure functions lowest_ranking_filters and               *)
(*             get_prunning_plan applied to rank tables drawn from a       *)
(*             bounded set, followed by the removal of the planned pairs.  *)
(*                                                                         *)
(* Names that finetune.py uses without importing them itself (itemgetter,  *)
(* np, prune_vgg16_conv_layer) are taken to be supplied by its star        *)
(* imports; names that are misspelt inside a function body (sekf,          *)
(* num_filter_to_prune, an unhashable dict key) raise, as in Python.       *)
(***************************************************************************)
EXTENDS Integers, Sequences, FiniteSets, TLC

(* ------------------------------ bounds -------------------------------- *)
MaxModules == 3      \* modules in the backbone, Spec
MaxBatches == 2      \* batches the training loader yields
MaxTest == 1         \* batches the test loader yields
PlanModules == 2     \* modules in the backbone, SpecPlan
MaxTotal == 4        \* filters in the whole backbone, SpecPlan
MaxScore == 1        \* scores of the rank table are 0..MaxScore, SpecPlan

\* out_channels a convolution of the backbone may have in Spec
ChannelChoices == {64, 512}

(* ------------------------------ state --------------------------------- *)
VARIABLES
  features,            \* model.features: sequence of [kind, out]
  weights,             \* number of optimizer steps applied to the parameters
  requires_grad,       \* requires_grad of the backbone parameters
  training,            \* model.training
  grads,               \* gradient buffers: "stale", "zero" or "computed"
  optimizer,           \* parameters the optimizer in use was built over
  train_size,          \* batches of train_data_loader
  test_size,           \* batches of test_data_loader
  filter_ranks,        \* prunner.filter_ranks
  activations,         \* prunner.activations (layer that produced each)
  grad_index,          \* prunner.grad_index
  activation_to_layer, \* prunner.activation_to_layer
  hooks,               \* tensors that carry a compute_rank hook
  op,                  \* the operation that was started
  pc,                  \* position in the running operation
  stack,               \* return positions of the calls in progress
  rank_filters,        \* argument of the running train_epoch
  layer,               \* loop variable of FilterPrunner.forward
  batch_i,             \* loop variable of train_epoch
  epochs,              \* argument of train
  epoch_i,             \* loop variable of train
  number_of_filters,   \* local of prune
  iterations,          \* local of prune
  iter_i,              \* iterations of prune's loop completed
  error,               \* the exception that ended the operation
  saved,               \* what torch.save wrote, "none" before
  trace,               \* steps of the operation in the order taken
  tb_calls,            \* train_batch calls started
  backwards,           \* backward passes run
  weights0,            \* weights when the running train_epoch started
  num,                 \* argument num / num_filters_to_prune
  lowest,              \* result of lowest_ranking_filters
  plan,                \* result of get_prunning_plan
  applied,             \* pairs of the plan already applied
  layers,              \* per convolution, the original filters left
  rejected             \* a pair was rejected by the surgeon

progvars == <<features, weights, requires_grad, training, grads, optimizer,
              train_size, test_size, filter_ranks, activations, grad_index,
              activation_to_layer, hooks, op, pc, stack, rank_filters, layer,
              batch_i, epochs, epoch_i, number_of_filters, iterations, iter_i,
              error, saved, trace, tb_calls, backwards, weights0>>
planvars == <<num, lowest, plan, applied, layers, rejected>>
vars == <<progvars, planvars>>

(* ----------------------------- helpers -------------------------------- *)
EmptyMap == [x \in {} |-> 0]

Min(a, b) == IF a <= b THEN a ELSE b

Abs(a) == IF a < 0 THEN -a ELSE a

Range(s) == {s[i] : i \in DOMAIN s}

Modules(channels) ==
  {[kind |-> "conv", out |-> c] : c \in channels} \cup {[kind |-> "relu", out |-> 0]}

Networks(channels, maxlen) ==
  UNION {[1..n -> Modules(channels)] : n \in 1..maxlen}

IsConv(f, l) == l \in 0..(Len(f) - 1) /\ f[l + 1].kind = "conv"

\* absolute (0-based) indices of the convolutions, in forward order
ConvLayers(f) ==
  SelectSeq([i \in 1..Len(f) |-> i - 1], LAMBDA l : f[l + 1].kind = "conv")

\* position in the activation list (0-based) -> absolute layer index
ConvPositions(f) ==
  [a \in 0..(Len(ConvLayers(f)) - 1) |-> ConvLayers(f)[a + 1]]

RECURSIVE SumOutChannels(_)
SumOutChannels(f) ==
  IF f = <<>> THEN 0
  ELSE (IF f[1].kind = "conv" THEN f[1].out ELSE 0) + SumOutChannels(Tail(f))

(* --------------------------- FilterPrunner ---------------------------- *)
\* FilterPrunner.reset
reset == EmptyMap

\* The per-filter value  (activation * grad).mean(dim=(0, 2, 3))  that batch b
\* yields for activation a with n filters.  It depends on the data; this is a
\* fixed stand-in with values in -1..1.
Taylor(b, a, n) == [j \in 1..n |-> ((b + a + j) % 3) - 1]

\* FilterPrunner.compute_rank: the rank table after the callback, given the
\* table fr, the activation list acts, the callback count gi, the backbone f
\* and the per-filter value taylor of this callback.
compute_rank(fr, acts, gi, f, taylor) ==
  LET activation_index == Len(acts) - gi - 1
      activation == acts[activation_index + 1]
      size1 == f[activation + 1].out
      touched == IF activation_index \in DOMAIN fr
                 THEN fr
                 ELSE [i \in DOMAIN fr \cup {activation_index} |->
                         IF i = activation_index THEN [j \in 1..size1 |-> 0]
                         ELSE fr[i]]
  IN [touched EXCEPT ![activation_index] =
        [j \in 1..size1 |-> touched[activation_index][j] + taylor[j]]]

\* sorted(...) of a finite set of integers
RECURSIVE SortedKeys(_)
SortedKeys(S) ==
  IF S = {} THEN <<>>
  ELSE LET m == CHOOSE x \in S : \A y \in S : x <= y
       IN <<m>> \o SortedKeys(S \ {m})

\* the list data of lowest_ranking_filters: triples <<layer, filter, score>>
\* for i in sorted(keys), for j in range(size)
RECURSIVE RankData(_, _, _)
RankData(fr, a2l, keys) ==
  IF keys = <<>> THEN <<>>
  ELSE [j \in 1..Len(fr[keys[1]]) |-> <<a2l[keys[1]], j - 1, fr[keys[1]][j]>>]
       \o RankData(fr, a2l, Tail(keys))

\* variant of InsertByScore that puts x before the entries of equal score
RECURSIVE InsertByScore_Unstable(_, _)
InsertByScore_Unstable(x, s) ==
  IF s = <<>> THEN <<x>>
  ELSE IF s[1][3] < x[3] THEN <<s[1]>> \o InsertByScore_Unstable(x, Tail(s))
       ELSE <<x>> \o s

\* sorted(data, key=itemgetter(2)): stable insertion of x into a sorted list
RECURSIVE InsertByScore(_, _)
InsertByScore(x, s) ==
  IF s = <<>> THEN <<x>>
  ELSE IF s[1][3] <= x[3] THEN <<s[1]>> \o InsertByScore(x, Tail(s))
       ELSE <<x>> \o s

RECURSIVE SortByScore(_, _)
SortByScore(data, acc) ==
  IF data = <<>> THEN acc
  ELSE SortByScore(Tail(data), InsertByScore(data[1], acc))

\* heapq.nsmallest(n, data, itemgetter(2)) = sorted(data, key=...)[:n]
nsmallest(n, data) ==
  SubSeq(SortByScore(data, <<>>), 1, Min(n, Len(data)))

\* FilterPrunner.lowest_ranking_filters
lowest_ranking_filters(fr, a2l, n) ==
  nsmallest(n, RankData(fr, a2l, SortedKeys(DOMAIN fr)))

\* FilterPrunner.normalize_ranks_per_layer: v = |v| / sqrt(sum(v*v)); an entry
\* <<a, q>> stands for the value a / sqrt(q)
RECURSIVE SumSquares(_)
SumSquares(v) ==
  IF v = <<>> THEN 0 ELSE v[1] * v[1] + SumSquares(Tail(v))

normalize_ranks_per_layer(fr) ==
  [i \in DOMAIN fr |-> [j \in 1..Len(fr[i]) |-> <<Abs(fr[i][j]), SumSquares(fr[i])>>]]

\* sorted(list of integers)
RECURSIVE InsertInt(_, _)
InsertInt(x, s) ==
  IF s = <<>> THEN <<x>>
  ELSE IF s[1] <= x THEN <<s[1]>> \o InsertInt(x, Tail(s))
       ELSE <<x>> \o s

RECURSIVE SortInts(_, _)
SortInts(s, acc) ==
  IF s = <<>> THEN acc ELSE SortInts(Tail(s), InsertInt(s[1], acc))

\* first loop of get_prunning_plan: the dict filters_to_prune_per_layer as
\* [keys |-> layers in insertion order, val |-> layer -> list of filters]
RECURSIVE GroupPerLayer(_, _)
GroupPerLayer(triples, d) ==
  IF triples = <<>> THEN d
  ELSE LET l == triples[1][1]
           f == triples[1][2]
           d1 == IF l \in DOMAIN d.val THEN d
                 ELSE [keys |-> Append(d.keys, l),
                       val |-> [k \in DOMAIN d.val \cup {l} |->
                                  IF k = l THEN <<>> ELSE d.val[k]]]
       IN GroupPerLayer(Tail(triples),
                        [d1 EXCEPT !.val[l] = Append(d1.val[l], f)])

\* variants of AdjustLayer: without the shift, without the sort, and with
\* the shift counted from one
AdjustLayer_NoShift(fs) == SortInts(fs, <<>>)

AdjustLayer_Unsorted(fs) == [i \in 1..Len(fs) |-> fs[i] - (i - 1)]

AdjustLayer_ShiftFromOne(fs) ==
  LET sorted == SortInts(fs, <<>>)
  IN [i \in 1..Len(sorted) |-> sorted[i] - i]

\* second loop: sort each layer's list, then list[i] = list[i] - i
AdjustLayer(fs) ==
  LET sorted == SortInts(fs, <<>>)
  IN [i \in 1..Len(sorted) |-> sorted[i] - (i - 1)]

\* third loop: flatten to pairs <<layer, index>> in dict order
RECURSIVE FlattenPlan(_, _)
FlattenPlan(keys, val) ==
  IF keys = <<>> THEN <<>>
  ELSE [i \in 1..Len(val[keys[1]]) |-> <<keys[1], val[keys[1]][i]>>]
       \o FlattenPlan(Tail(keys), val)

\* FilterPrunner.get_prunning_plan
get_prunning_plan(fr, a2l, n) ==
  LET d == GroupPerLayer(lowest_ranking_filters(fr, a2l, n),
                         [keys |-> <<>>, val |-> EmptyMap])
  IN FlattenPlan(d.keys, [l \in DOMAIN d.val |-> AdjustLayer(d.val[l])])

(* ------------------------- PrunningFineTuner -------------------------- *)
\* PrunningFineTuner.total_num_filters: the loop assigns the sum to the
\* local  fitlers  and the function returns  filters
RECURSIVE TotalLoop(_, _, _)
TotalLoop(f, filters, fitlers) ==
  IF f = <<>> THEN filters
  ELSE IF f[1].kind = "conv"
       THEN TotalLoop(Tail(f), filters, filters + f[1].out)
       ELSE TotalLoop(Tail(f), filters, fitlers)

total_num_filters(f) == TotalLoop(f, 0, 0)

\* num_filters_to_prune_per_iteration in prune
num_filters_to_prune_per_iteration == 512

\* iterations = int(float(n) / 512); iterations = int(iterations * 2.0 / 3)
IterationCount(n) ==
  (((n \div num_filters_to_prune_per_iteration) * 2) \div 3)

(* ------------------------------- Spec --------------------------------- *)
\* The tuner after PrunningFineTuner.__init__ (which builds the FilterPrunner,
\* whose __init__ calls reset, and puts the model in training mode).
Init ==
  /\ features \in Networks(ChannelChoices, MaxModules)
  /\ weights = 0
  /\ requires_grad \in BOOLEAN
  /\ training = TRUE
  /\ grads = "stale"
  /\ optimizer = "none"
  /\ train_size \in 0..MaxBatches
  /\ test_size \in 0..MaxTest
  /\ filter_ranks = reset
  /\ activations = <<>>
  /\ grad_index = 0
  /\ activation_to_layer = EmptyMap
  /\ hooks = {}
  /\ op = "none"
  /\ pc = "idle"
  /\ stack = <<>>
  /\ rank_filters = FALSE
  /\ layer = 0
  /\ batch_i = 0
  /\ epochs = 0
  /\ epoch_i = 0
  /\ number_of_filters = 0
  /\ iterations = 0
  /\ iter_i = 0
  /\ error = "none"
  /\ saved = -1
  /\ trace = <<>>
  /\ tb_calls = 0
  /\ backwards = 0
  /\ weights0 = 0
  /\ num = 0
  /\ lowest = <<>>
  /\ plan = <<>>
  /\ applied = 0
  /\ layers = EmptyMap
  /\ rejected = FALSE

\* fine_tuner.prune() is called; its first statement is self.test()
CallPrune ==
  /\ pc = "idle"
  /\ op' = "prune"
  /\ trace' = <<"baseline">>
  /\ stack' = <<"prune_unfreeze">>
  /\ pc' = "test"
  /\ UNCHANGED <<features, weights, requires_grad, training, grads,
                 optimizer, train_size, test_size, filter_ranks, activations,
                 grad_index, activation_to_layer, hooks, rank_filters, layer,
                 batch_i, epochs, epoch_i, number_of_filters, iterations,
                 iter_i, error, saved, tb_calls, backwards, weights0, num,
                 lowest, plan, applied, layers, rejected>>

\* get_candidates_to_prune(n) is called on the tuner
CallGetCandidates ==
  /\ pc = "idle"
  /\ \E n \in {0, num_filters_to_prune_per_iteration} : num' = n
  /\ op' = "candidates"
  /\ stack' = <<"done">>
  /\ pc' = "cand_reset"
  /\ UNCHANGED <<features, weights, requires_grad, training, grads,
                 optimizer, train_size, test_size, filter_ranks, activations,
                 grad_index, activation_to_layer, hooks, rank_filters, layer,
                 batch_i, epochs, epoch_i, number_of_filters, iterations,
                 iter_i, error, saved, trace, tb_calls, backwards, weights0,
                 lowest, plan, applied, layers, rejected>>

\* PrunningFineTuner.test: eval mode, one pass over the test loader, then
\* float(correct) / total, which raises when the loader gave no batch, then
\* back to training mode
test ==
  /\ pc = "test"
  /\ IF test_size = 0
     THEN /\ training' = FALSE
          /\ error' = "ZeroDivisionError"
          /\ pc' = "failed"
          /\ stack' = <<>>
     ELSE /\ training' = TRUE
          /\ error' = error
          /\ pc' = Head(stack)
          /\ stack' = Tail(stack)
  /\ UNCHANGED <<features, weights, requires_grad, grads, optimizer,
                 train_size, test_size, filter_ranks, activations,
                 grad_index, activation_to_layer, hooks, op, rank_filters,
                 layer, batch_i, epochs, epoch_i, number_of_filters,
                 iterations, iter_i, saved, trace, tb_calls, backwards,
                 weights0, num, lowest, plan, applied, layers, rejected>>

\* prune: self.model.train(); requires_grad = True on the backbone
Unfreeze ==
  /\ pc = "prune_unfreeze"
  /\ training' = TRUE
  /\ requires_grad' = TRUE
  /\ trace' = Append(trace, "unfreeze")
  /\ pc' = "prune_budget"
  /\ UNCHANGED <<features, weights, grads, optimizer, train_size, test_size,
                 filter_ranks, activations, grad_index, activation_to_layer,
                 hooks, op, stack, rank_filters, layer, batch_i, epochs,
                 epoch_i, number_of_filters, iterations, iter_i, error,
                 saved, tb_calls, backwards, weights0, num, lowest, plan,
                 applied, layers, rejected>>

\* prune: number_of_filters, the quota and iterations
Budget ==
  /\ pc = "prune_budget"
  /\ number_of_filters' = total_num_filters(features)
  /\ iterations' = IterationCount(total_num_filters(features))
  /\ iter_i' = 0
  /\ trace' = Append(trace, "budget")
  /\ pc' = "prune_loop"
  /\ UNCHANGED <<features, weights, requires_grad, training, grads,
                 optimizer, train_size, test_size, filter_ranks, activations,
                 grad_index, activation_to_layer, hooks, op, stack,
                 rank_filters, layer, batch_i, epochs, epoch_i, error, saved,
                 tb_calls, backwards, weights0, num, lowest, plan, applied,
                 layers, rejected>>

\* prune: for _ in range(iterations); the body starts with the call of
\* get_candidates_to_prune(num_filters_to_prune_per_iteration)
LoopTest ==
  /\ pc = "prune_loop"
  /\ IF iter_i < iterations
     THEN /\ num' = num_filters_to_prune_per_iteration
          /\ stack' = <<"prune_body">>
          /\ pc' = "cand_reset"
     ELSE /\ num' = num
          /\ stack' = stack
          /\ pc' = "prune_final"
  /\ UNCHANGED <<features, weights, requires_grad, training, grads,
                 optimizer, train_size, test_size, filter_ranks, activations,
                 grad_index, activation_to_layer, hooks, op, rank_filters,
                 layer, batch_i, epochs, epoch_i, number_of_filters,
                 iterations, iter_i, error, saved, trace, tb_calls,
                 backwards, weights0, lowest, plan, applied, layers,
                 rejected>>

\* variant of FinalFineTune that goes on to the save without the training pass
FinalFineTune_Skipped ==
  /\ pc = "prune_final"
  /\ optimizer' = "all"
  /\ pc' = "prune_save"
  /\ UNCHANGED <<features, weights, requires_grad, training, grads,
                 train_size, test_size, filter_ranks, activations,
                 grad_index, activation_to_layer, hooks, op, stack,
                 rank_filters, layer, batch_i, epochs, epoch_i,
                 number_of_filters, iterations, iter_i, error, saved, trace,
                 tb_calls, backwards, weights0, num, lowest, plan, applied,
                 layers, rejected>>

\* prune, after the loop: a fresh SGD over self.model.parameters() and
\* self.train(optimizer, epochs=1)
FinalFineTune ==
  /\ pc = "prune_final"
  /\ optimizer' = "all"
  /\ trace' = Append(trace, "finetune")
  /\ epochs' = 1
  /\ epoch_i' = 0
  /\ stack' = <<"prune_save">>
  /\ pc' = "train_loop"
  /\ UNCHANGED <<features, weights, requires_grad, training, grads,
                 train_size, test_size, filter_ranks, activations,
                 grad_index, activation_to_layer, hooks, op, rank_filters,
                 layer, batch_i, number_of_filters, iterations, iter_i,
                 error, saved, tb_calls, backwards, weights0, num, lowest,
                 plan, applied, layers, rejected>>

\* train: for i in range(epochs): self.train_epoch(optimizer), which runs
\* with rank_filters = False
TrainLoop ==
  /\ pc = "train_loop"
  /\ IF epoch_i < epochs
     THEN /\ rank_filters' = FALSE
          /\ batch_i' = 0
          /\ tb_calls' = 0
          /\ backwards' = 0
          /\ weights0' = weights
          /\ stack' = <<"train_test">> \o stack
          /\ pc' = "epoch_loop"
     ELSE /\ UNCHANGED <<rank_filters, batch_i, tb_calls, backwards, weights0>>
          /\ pc' = Head(stack)
          /\ stack' = Tail(stack)
  /\ UNCHANGED <<features, weights, requires_grad, training, grads,
                 optimizer, train_size, test_size, filter_ranks, activations,
                 grad_index, activation_to_layer, hooks, op, layer, epochs,
                 epoch_i, number_of_filters, iterations, iter_i, error,
                 saved, trace, num, lowest, plan, applied, layers, rejected>>

\* train: self.test() after the epoch, then the next epoch
TrainTest ==
  /\ pc = "train_test"
  /\ epoch_i' = epoch_i + 1
  /\ stack' = <<"train_loop">> \o stack
  /\ pc' = "test"
  /\ UNCHANGED <<features, weights, requires_grad, training, grads,
                 optimizer, train_size, test_size, filter_ranks, activations,
                 grad_index, activation_to_layer, hooks, op, rank_filters,
                 layer, batch_i, epochs, number_of_filters, iterations,
                 iter_i, error, saved, trace, tb_calls, backwards, weights0,
                 num, lowest, plan, applied, layers, rejected>>

\* train_epoch: for each batch of the training loader, self.train_batch(...)
EpochLoop ==
  /\ pc = "epoch_loop"
  /\ IF batch_i < train_size
     THEN /\ tb_calls' = tb_calls + 1
          /\ stack' = stack
          /\ pc' = "tb_zero_grad"
     ELSE /\ tb_calls' = tb_calls
          /\ pc' = Head(stack)
          /\ stack' = Tail(stack)
  /\ UNCHANGED <<features, weights, requires_grad, training, grads,
                 optimizer, train_size, test_size, filter_ranks, activations,
                 grad_index, activation_to_layer, hooks, op, rank_filters,
                 layer, batch_i, epochs, epoch_i, number_of_filters,
                 iterations, iter_i, error, saved, trace, backwards,
                 weights0, num, lowest, plan, applied, layers, rejected>>

\* train_batch: self.model.zero_grad(), then the branch on rank_filters
TB_ZeroGrad ==
  /\ pc = "tb_zero_grad"
  /\ grads' = "zero"
  /\ pc' = IF rank_filters THEN "fwd_init" ELSE "tb_step"
  /\ UNCHANGED <<features, weights, requires_grad, training, optimizer,
                 train_size, test_size, filter_ranks, activations,
                 grad_index, activation_to_layer, hooks, op, stack,
                 rank_filters, layer, batch_i, epochs, epoch_i,
                 number_of_filters, iterations, iter_i, error, saved, trace,
                 tb_calls, backwards, weights0, num, lowest, plan, applied,
                 layers, rejected>>

\* train_batch, rank_filters false: forward through the model, backward,
\* optimizer.step(); the optimizer is None when none was passed
TB_Step ==
  /\ pc = "tb_step"
  /\ grads' = "computed"
  /\ backwards' = backwards + 1
  /\ IF optimizer = "none"
     THEN /\ error' = "AttributeError"
          /\ pc' = "failed"
          /\ stack' = <<>>
          /\ UNCHANGED <<weights, batch_i>>
     ELSE /\ weights' = weights + 1
          /\ batch_i' = batch_i + 1
          /\ pc' = "epoch_loop"
          /\ UNCHANGED <<error, stack>>
  /\ UNCHANGED <<features, requires_grad, training, optimizer, train_size,
                 test_size, filter_ranks, activations, grad_index,
                 activation_to_layer, hooks, op, rank_filters, layer, epochs,
                 epoch_i, number_of_filters, iterations, iter_i, saved,
                 trace, tb_calls, weights0, num, lowest, plan, applied,
                 layers, rejected>>

\* FilterPrunner.forward, before its loop: the lists and the map are
\* emptied (the local activation_index is set to a list)
ForwardInit ==
  /\ pc = "fwd_init"
  /\ activations' = <<>>
  /\ grad_index' = 0
  /\ activation_to_layer' = EmptyMap
  /\ layer' = 0
  /\ pc' = "fwd_loop"
  /\ UNCHANGED <<features, weights, requires_grad, training, grads,
                 optimizer, train_size, test_size, filter_ranks, hooks, op,
                 stack, rank_filters, batch_i, epochs, epoch_i,
                 number_of_filters, iterations, iter_i, error, saved, trace,
                 tb_calls, backwards, weights0, num, lowest, plan, applied,
                 layers, rejected>>

\* FilterPrunner.forward, one module of the backbone: on a convolution the
\* hook is registered and the output appended, then the assignment
\* activation_to_layer[activation_index] = layer raises, its key being a
\* list; after the last module the classifier output is returned
ForwardModule ==
  /\ pc = "fwd_loop"
  /\ IF layer < Len(features)
     THEN IF features[layer + 1].kind = "conv"
          THEN /\ hooks' = hooks \cup {layer}
               /\ activations' = Append(activations, layer)
               /\ error' = "TypeError"
               /\ pc' = "failed"
               /\ stack' = <<>>
               /\ layer' = layer
          ELSE /\ layer' = layer + 1
               /\ pc' = "fwd_loop"
               /\ UNCHANGED <<hooks, activations, error, stack>>
     ELSE /\ pc' = "tb_backward"
          /\ UNCHANGED <<hooks, activations, error, stack, layer>>
  /\ UNCHANGED <<features, weights, requires_grad, training, grads,
                 optimizer, train_size, test_size, filter_ranks, grad_index,
                 activation_to_layer, op, rank_filters, batch_i, epochs,
                 epoch_i, number_of_filters, iterations, iter_i, saved,
                 trace, tb_calls, backwards, weights0, num, lowest, plan,
                 applied, layers, rejected>>

\* train_batch, rank_filters true, after the forward:
\* sekf.criterion(...).backward() raises NameError before the loss exists
TB_Backward ==
  /\ pc = "tb_backward"
  /\ error' = "NameError"
  /\ pc' = "failed"
  /\ stack' = <<>>
  /\ UNCHANGED <<features, weights, requires_grad, training, grads,
                 optimizer, train_size, test_size, filter_ranks, activations,
                 grad_index, activation_to_layer, hooks, op, rank_filters,
                 layer, batch_i, epochs, epoch_i, number_of_filters,
                 iterations, iter_i, saved, trace, tb_calls, backwards,
                 weights0, num, lowest, plan, applied, layers, rejected>>

\* prune, after train returned: torch.save of the model's state
Save ==
  /\ pc = "prune_save"
  /\ saved' = weights
  /\ trace' = Append(trace, "persist")
  /\ pc' = "done"
  /\ UNCHANGED <<features, weights, requires_grad, training, grads,
                 optimizer, train_size, test_size, filter_ranks, activations,
                 grad_index, activation_to_layer, hooks, op, stack,
                 rank_filters, layer, batch_i, epochs, epoch_i,
                 number_of_filters, iterations, iter_i, error, tb_calls,
                 backwards, weights0, num, lowest, plan, applied, layers,
                 rejected>>

\* get_candidates_to_prune: self.prunner.reset()
CandReset ==
  /\ pc = "cand_reset"
  /\ filter_ranks' = reset
  /\ trace' = Append(trace, "reset")
  /\ pc' = "cand_rank"
  /\ UNCHANGED <<features, weights, requires_grad, training, grads,
                 optimizer, train_size, test_size, activations, grad_index,
                 activation_to_layer, hooks, op, stack, rank_filters, layer,
                 batch_i, epochs, epoch_i, number_of_filters, iterations,
                 iter_i, error, saved, tb_calls, backwards, weights0, num,
                 lowest, plan, applied, layers, rejected>>

\* get_candidates_to_prune: self.train_epoch(rank_filters=True)
CandRank ==
  /\ pc = "cand_rank"
  /\ rank_filters' = TRUE
  /\ optimizer' = "none"
  /\ batch_i' = 0
  /\ tb_calls' = 0
  /\ backwards' = 0
  /\ weights0' = weights
  /\ trace' = Append(trace, "rank")
  /\ stack' = <<"cand_normalize">> \o stack
  /\ pc' = "epoch_loop"
  /\ UNCHANGED <<features, weights, requires_grad, training, grads,
                 train_size, test_size, filter_ranks, activations,
                 grad_index, activation_to_layer, hooks, op, layer, epochs,
                 epoch_i, number_of_filters, iterations, iter_i, error,
                 saved, num, lowest, plan, applied, layers, rejected>>

\* get_candidates_to_prune: self.prunner.normalize_ranks_per_layer()
CandNormalize ==
  /\ pc = "cand_normalize"
  /\ filter_ranks' = normalize_ranks_per_layer(filter_ranks)
  /\ trace' = Append(trace, "normalize")
  /\ pc' = "cand_plan"
  /\ UNCHANGED <<features, weights, requires_grad, training, grads,
                 optimizer, train_size, test_size, activations, grad_index,
                 activation_to_layer, hooks, op, stack, rank_filters, layer,
                 batch_i, epochs, epoch_i, number_of_filters, iterations,
                 iter_i, error, saved, tb_calls, backwards, weights0, num,
                 lowest, plan, applied, layers, rejected>>

\* get_candidates_to_prune: the argument num_filter_to_prune of the call of
\* get_prunning_plan is an undefined name, so the call is never made
CandPlan ==
  /\ pc = "cand_plan"
  /\ error' = "NameError"
  /\ pc' = "failed"
  /\ stack' = <<>>
  /\ UNCHANGED <<features, weights, requires_grad, training, grads,
                 optimizer, train_size, test_size, filter_ranks, activations,
                 grad_index, activation_to_layer, hooks, op, rank_filters,
                 layer, batch_i, epochs, epoch_i, number_of_filters,
                 iterations, iter_i, saved, trace, tb_calls, backwards,
                 weights0, num, lowest, plan, applied, layers, rejected>>

Next ==
  \/ CallPrune
  \/ CallGetCandidates
  \/ test
  \/ Unfreeze
  \/ Budget
  \/ LoopTest
  \/ FinalFineTune
  \/ TrainLoop
  \/ TrainTest
  \/ EpochLoop
  \/ TB_ZeroGrad
  \/ TB_Step
  \/ ForwardInit
  \/ ForwardModule
  \/ TB_Backward
  \/ Save
  \/ CandReset
  \/ CandRank
  \/ CandNormalize
  \/ CandPlan

Spec == Init /\ [][Next]_vars

(* ----------------------------- SpecPlan ------------------------------- *)
\* Layer Surgeon (prune_vgg16_conv_layer, called by prune): which pairs it
\* rejects, and the filters of the layers after it removed one.  ls maps
\* each convolution's layer index to the original filters it still has.
SurgeonRejects(ls, l, i) ==
  \/ l \notin DOMAIN ls
  \/ i < 0
  \/ i >= Len(ls[l])

remove_filter(ls, l, i) ==
  [ls EXCEPT ![l] = SubSeq(@, 1, i) \o SubSeq(@, i + 2, Len(@))]

\* rank tables that have one score per filter of every convolution of f:
\* every list of SumOutChannels(f) scores, cut into one vector per convolution
RankTables(f) ==
  LET acts == ConvLayers(f)
      size(a) == f[acts[a + 1] + 1].out
      offset(a) == SumOutChannels(SubSeq(f, 1, acts[a + 1]))
  IN {[a \in 0..(Len(acts) - 1) |-> SubSeq(flat, offset(a) + 1, offset(a) + size(a))] :
        flat \in [1..SumOutChannels(f) -> 0..MaxScore]}

\* A FilterPrunner that holds a rank table for its backbone and the map from
\* activation position to layer index, and a num to call it with.
InitPlan ==
  /\ features \in {f \in Networks(1..MaxTotal, PlanModules) :
                     SumOutChannels(f) <= MaxTotal}
  /\ filter_ranks \in RankTables(features)
  /\ activation_to_layer = ConvPositions(features)
  /\ activations = ConvLayers(features)
  /\ num \in 0..(SumOutChannels(features) + 1)
  /\ layers = [l \in Range(ConvLayers(features)) |->
                 [j \in 1..features[l + 1].out |-> j - 1]]
  /\ op = "plan"
  /\ pc = "input"
  /\ lowest = <<>>
  /\ plan = <<>>
  /\ applied = 0
  /\ rejected = FALSE
  /\ weights = 0
  /\ requires_grad = TRUE
  /\ training = TRUE
  /\ grads = "stale"
  /\ optimizer = "none"
  /\ train_size = 0
  /\ test_size = 0
  /\ grad_index = 0
  /\ hooks = {}
  /\ stack = <<>>
  /\ rank_filters = FALSE
  /\ layer = 0
  /\ batch_i = 0
  /\ epochs = 0
  /\ epoch_i = 0
  /\ number_of_filters = 0
  /\ iterations = 0
  /\ iter_i = 0
  /\ error = "none"
  /\ saved = -1
  /\ trace = <<>>
  /\ tb_calls = 0
  /\ backwards = 0
  /\ weights0 = 0

\* prunner.lowest_ranking_filters(num)
PlanLowest ==
  /\ pc = "input"
  /\ lowest' = lowest_ranking_filters(filter_ranks, activation_to_layer, num)
  /\ pc' = "ranked"
  /\ UNCHANGED <<features, weights, requires_grad, training, grads,
                 optimizer, train_size, test_size, filter_ranks, activations,
                 grad_index, activation_to_layer, hooks, op, stack,
                 rank_filters, layer, batch_i, epochs, epoch_i,
                 number_of_filters, iterations, iter_i, error, saved, trace,
                 tb_calls, backwards, weights0, num, plan, applied, layers,
                 rejected>>

\* prunner.get_prunning_plan(num)
PlanPlan ==
  /\ pc = "ranked"
  /\ plan' = get_prunning_plan(filter_ranks, activation_to_layer, num)
  /\ applied' = 0
  /\ pc' = "apply"
  /\ UNCHANGED <<features, weights, requires_grad, training, grads,
                 optimizer, train_size, test_size, filter_ranks, activations,
                 grad_index, activation_to_layer, hooks, op, stack,
                 rank_filters, layer, batch_i, epochs, epoch_i,
                 number_of_filters, iterations, iter_i, error, saved, trace,
                 tb_calls, backwards, weights0, num, lowest, layers,
                 rejected>>

\* the next pair of the plan is handed to the surgeon, in plan order
PlanApply ==
  /\ pc = "apply"
  /\ applied < Len(plan)
  /\ applied' = applied + 1
  /\ LET l == plan[applied + 1][1]
         i == plan[applied + 1][2]
     IN IF SurgeonRejects(layers, l, i)
        THEN /\ rejected' = TRUE
             /\ layers' = layers
             /\ pc' = "failed"
        ELSE /\ rejected' = FALSE
             /\ layers' = remove_filter(layers, l, i)
             /\ pc' = "apply"
  /\ UNCHANGED <<features, weights, requires_grad, training, grads,
                 optimizer, train_size, test_size, filter_ranks, activations,
                 grad_index, activation_to_layer, hooks, op, stack,
                 rank_filters, layer, batch_i, epochs, epoch_i,
                 number_of_filters, iterations, iter_i, error, saved, trace,
                 tb_calls, backwards, weights0, num, lowest, plan>>

NextPlan ==
  \/ PlanLowest
  \/ PlanPlan
  \/ PlanApply

SpecPlan == InitPlan /\ [][NextPlan]_vars

(* ------------------------ properties, SpecPlan ------------------------ *)
\* the triples of the rank table, as a set
AllTriples ==
  UNION {{<<activation_to_layer[a], j - 1, filter_ranks[a][j]>> :
            j \in 1..Len(filter_ranks[a])} : a \in DOMAIN filter_ranks}

\* t comes before u in the enumeration order (activation, then filter)
Before(t, u) == t[1] < u[1] \/ (t[1] = u[1] /\ t[2] < u[2])

\* t is taken no later than u: smaller score, or equal score and earlier
Precedes(t, u) == t[3] < u[3] \/ (t[3] = u[3] /\ Before(t, u))

\* the original filters selected in layer l, and the layer as it was
SelectedIn(l) == {lowest[k][2] : k \in {k \in DOMAIN lowest : lowest[k][1] = l}}

Original(l) == [j \in 1..features[l + 1].out |-> j - 1]

Without(s, S) == SelectSeq(s, LAMBDA x : x \notin S)

\* the adjusted indices the plan holds for layer l, in plan order
RECURSIVE PlanFor(_, _)
PlanFor(p, l) ==
  IF p = <<>> THEN <<>>
  ELSE (IF p[1][1] = l THEN <<p[1][2]>> ELSE <<>>) \o PlanFor(Tail(p), l)

IsAscending(s) == \A i \in 1..(Len(s) - 1) : s[i] <= s[i + 1]

\* removal of one filter at a time, at the 0-based indices idx in order
RECURSIVE SeqRemove(_, _)
SeqRemove(s, idx) ==
  IF idx = <<>> THEN s
  ELSE SeqRemove(SubSeq(s, 1, idx[1]) \o SubSeq(s, idx[1] + 2, Len(s)), Tail(idx))

Planned == op = "plan" /\ pc = "apply" /\ applied = 0

AllApplied == op = "plan" /\ pc = "apply" /\ applied = Len(plan)

\* C1: once every pair of the plan has been applied as a single-filter
\* removal, in plan order, which within a layer is ascending, each layer is
\* left with exactly the filters that removing its selected set S at once
\* from the original layer leaves.
\* The example of the claim, n = 5 and S = {1, 3} selected as 3 then 1, is
\* the second conjunct.
C1_SequentialEqualsSimultaneous ==
  /\ AllApplied =>
       \A l \in DOMAIN layers :
         /\ IsAscending(PlanFor(plan, l))
         /\ layers[l] = Without(Original(l), SelectedIn(l))
  /\ op = "plan" =>
       /\ AdjustLayer(<<3, 1>>) = <<1, 2>>
       /\ SeqRemove(<<0, 1, 2, 3, 4>>, AdjustLayer(<<3, 1>>)) = <<0, 2, 4>>

\* a layer of four filters from which filters 1 and 3 were selected and
\* removed at plan indices 1 then 2
C1_Witness ==
  /\ AllApplied
  /\ \E l \in DOMAIN layers :
       /\ features[l + 1].out = 4
       /\ SelectedIn(l) = {1, 3}
       /\ PlanFor(plan, l) = <<1, 2>>
       /\ layers[l] = <<0, 2>>

\* C2: lowest_ranking_filters(num) returns min(num, number of filters)
\* distinct triples of the table, each one followed by a triple of larger
\* score or of equal score and later in the enumeration order, and every
\* triple left out comes after every returned one in that same order.
C2_LowestRanking ==
  (op = "plan" /\ pc # "input") =>
    /\ Len(lowest) = Min(num, Cardinality(AllTriples))
    /\ Range(lowest) \subseteq AllTriples
    /\ Cardinality(Range(lowest)) = Len(lowest)
    /\ \A k \in 1..(Len(lowest) - 1) : Precedes(lowest[k], lowest[k + 1])
    /\ \A t \in AllTriples \ Range(lowest) :
         \A k \in DOMAIN lowest : Precedes(lowest[k], t)

\* a cut through a tie: a triple left out has the score of the last one
\* returned, and the returned ones span two layers
C2_Witness ==
  /\ op = "plan" /\ pc = "ranked"
  /\ Len(lowest) = num /\ num >= 3
  /\ \E t \in AllTriples \ Range(lowest) : t[3] = lowest[Len(lowest)][3]
  /\ lowest[1][1] # lowest[Len(lowest)][1]
  /\ lowest[1][3] < lowest[Len(lowest)][3]

C6_AnyOrder ==
  Planned =>
    \A l \in DOMAIN layers :
      LET a == PlanFor(plan, l)
      IN \A f \in Permutations(1..Len(a)) :
           SeqRemove(Original(l), [i \in 1..Len(a) |-> a[f[i]]])
             = Without(Original(l), SelectedIn(l))

\* C6, amended: for every layer and every permutation of the layer's plan
\* indices that lists them in ascending order, removal in the permuted order
\* leaves the original layer without its selected set.
C6_AscendingOrder ==
  Planned =>
    \A l \in DOMAIN layers :
      LET a == PlanFor(plan, l)
      IN \A f \in Permutations(1..Len(a)) :
           IsAscending([i \in 1..Len(a) |-> a[f[i]]]) =>
             SeqRemove(Original(l), [i \in 1..Len(a) |-> a[f[i]]])
               = Without(Original(l), SelectedIn(l))

\* a layer whose plan has a repeated index and a larger one, so that several
\* permutations are ascending and several are not
C6_Witness ==
  /\ Planned
  /\ \E l \in DOMAIN layers :
       /\ PlanFor(plan, l) = <<0, 0, 1>>
       /\ SelectedIn(l) = {0, 1, 3}

(* -------------------------- properties, Spec -------------------------- *)
\* positions inside train_batch
InBatch == {"tb_zero_grad", "fwd_init", "fwd_loop", "tb_backward", "tb_step"}

\* positions of prune after the budget was computed
AfterBudget == {"prune_loop", "prune_final", "train_loop", "train_test",
                "epoch_loop", "prune_save", "done"} \cup InBatch

\* the rank table after the callbacks k, k+1, ... L-1 of batch b
RECURSIVE BatchSum(_, _, _, _)
BatchSum(fr, f, b, k) ==
  LET acts == ConvLayers(f)
  IN IF k >= Len(acts) THEN fr
     ELSE BatchSum(compute_rank(fr, acts, k, f,
                                Taylor(b, Len(acts) - k - 1,
                                       f[acts[Len(acts) - k] + 1].out)),
                   f, b, k + 1)

\* the rank table a ranking epoch over batches b..nb builds on fr
RECURSIVE EpochSum(_, _, _, _)
EpochSum(fr, f, b, nb) ==
  IF b > nb THEN fr
  ELSE EpochSum(BatchSum(fr, f, b, 0), f, b + 1, nb)

\* the ranking epoch of get_candidates_to_prune has ended
RankingEnded ==
  /\ "rank" \in Range(trace)
  /\ \/ pc = "cand_normalize"
     \/ pc = "failed" /\ rank_filters

\* C3, as claimed: total_num_filters() reports the sum of out_channels over
\* the convolutions of the backbone, and after each iteration of prune that
\* count is the quota lower than before it, so after iter_i iterations it is
\* iter_i quotas below the count the budget step took.
C3_CountDropsByQuota ==
  (op = "prune" /\ pc \in AfterBudget) =>
    /\ total_num_filters(features) = SumOutChannels(features)
    /\ total_num_filters(features)
         = number_of_filters - num_filters_to_prune_per_iteration * iter_i

\* C5, as claimed: the budget step sets number_of_filters to the sum of
\* out_channels and iterations to floor(floor(N / 512) * 2 / 3), and a run
\* on a backbone with N >= 1024 that finished went through the loop body.
C5_Budget ==
  (op = "prune" /\ pc \in AfterBudget) =>
    LET N == SumOutChannels(features)
    IN /\ number_of_filters = N
       /\ iterations = ((N \div 512) * 2) \div 3
       /\ (pc = "done" /\ N >= 1024) => "reset" \in Range(trace)

\* C7, as claimed: when the ranking epoch of get_candidates_to_prune has
\* ended, the rank table holds, for each activation index, the sum of the
\* contributions of that epoch's batches and nothing else.
C7_TableIsEpochSum ==
  RankingEnded => filter_ranks = EpochSum(EmptyMap, features, 1, train_size)

\* C8, as claimed: once train_batch calls of an epoch have ended, in ranking
\* mode each of them ran its backward pass and the parameters are those the
\* epoch started with; outside ranking mode each of them took one optimizer
\* step.
C8_RankingLeavesWeights ==
  (tb_calls >= 1 /\ pc \notin InBatch) =>
    IF rank_filters
    THEN backwards = tb_calls /\ weights = weights0
    ELSE weights = weights0 + tb_calls

\* C9, as claimed: once the forward of a ranking batch has ended, the
\* activation list holds the L convolution outputs in forward order and the
\* map sends each position 0..L-1 to its layer index; once the batch has
\* ended, the L callbacks have run and touched every activation index.
C9_ForwardAndCallbacks ==
  (rank_filters /\ tb_calls >= 1 /\ pc \notin {"tb_zero_grad", "fwd_init", "fwd_loop"}) =>
    /\ activations = ConvLayers(features)
    /\ activation_to_layer = ConvPositions(features)
    /\ pc \notin InBatch =>
         /\ grad_index = Len(ConvLayers(features))
         /\ DOMAIN filter_ranks = 0..(Len(ConvLayers(features)) - 1)

\* the step order of prune as a machine: state after reading step from state
StepOrder(q, step) ==
  CASE q = 0 /\ step = "baseline" -> 1
    [] q = 1 /\ step = "unfreeze" -> 2
    [] q = 2 /\ step = "budget" -> 3
    [] q = 3 /\ step = "reset" -> 4
    [] q = 4 /\ step = "rank" -> 5
    [] q = 5 /\ step = "normalize" -> 6
    [] q = 6 /\ step = "plan" -> 7
    [] q = 7 /\ step = "apply" -> 7
    [] q = 7 /\ step = "eval" -> 8
    [] q = 8 /\ step = "recover" -> 3
    [] q = 3 /\ step = "finetune" -> 9
    [] q = 9 /\ step = "persist" -> 10
    [] OTHER -> -1

RECURSIVE RunOrder(_, _)
RunOrder(q, t) ==
  IF t = <<>> \/ q = -1 THEN q ELSE RunOrder(StepOrder(q, t[1]), Tail(t))

====
